---- MODULE Spec2Model ----
(***************************************************************************)
(* Lifecycle of DBusNotification (misc/dbusnotification.cpp): the handle's *)
(* identifier m_id, the reply watcher m_watcher, the message m_msg, the    *)
(* static map pendingNotifications, and the calls made on the D-Bus        *)
(* interface org.freedesktop.Notifications.                                *)
(***************************************************************************)
EXTENDS Integers, Sequences, FiniteSets, TLC

\* ---------------------------------------------------------------- bounds
NumHandles == 2   \* DBusNotification objects (addresses) in the process
MaxId      == 2   \* identifiers the daemon hands out: 1..MaxId
MaxBody    == 7   \* longest m_msg followed
MaxReason  == 4   \* reason codes of NotificationClosed: 0..MaxReason
IDTypeBits == 4   \* width of IDType followed (uint in the source)
MaxQueries == 2   \* GetCapabilities calls unanswered at the same time

Handles == 1..NumHandles
Ids     == 1..MaxId
Reasons == 0..MaxReason
NoHandle == 0     \* no handle: "not found" in pendingNotifications

\* watchers of Notify calls: the one m_watcher points to, and those already
\* deleted (by a later show() or with their handle), which deliver no reply
NoWatcher      == "nullptr"
LiveWatcher    == "watcher"
DeletedWatcher == "deleted"

\* pendingNotificationsMutex (a non-recursive QMutex) between two steps: not
\* held, or held by a thread that is blocked in lock() on it
Unlocked   == "unlocked"
Deadlocked == "deadlocked"

\* ------------------------------------------------------- program constants
initialId  == 0
pendingId  == 2^IDTypeBits - 1
pendingId2 == pendingId - 1

\* characters of a QString; Bullet stands for the character U+2022
Bullet  == "U+2022"
Space   == " "
Newline == "\n"
Lines   == { <<>>, <<"a">>, <<Bullet, "a">> }
NoLines == { <<>> }
ActionIds == { "retry", "default" }

\* the QStringList a GetCapabilities reply carries
CapabilityLists == { <<>>, << "body" >>, << "body", "actions" >> }

\* the std::function the lambda of queryCapabilities refers to ("&callback")
\* when the reply arrives: the caller kept it, or it was a temporary that
\* ended with the call of queryCapabilities
KeptCallback      == "kept"
DestroyedCallback == "destroyed"

\* what a slot connected to closed() with a direct connection does with the
\* handle that emitted it: nothing, show() it again, or delete it
NoSlot     == "none"
ShowSlot   == "show"
DeleteSlot == "delete"
Slots      == { NoSlot, ShowSlot, DeleteSlot }

VARIABLES
    alive,                 \* alive[h]: the object at address h is constructed
    m_id,                  \* m_id[h]
    m_watcher,             \* m_watcher[h]: NoWatcher or LiveWatcher
    m_msg,                 \* m_msg[h]: sequence of characters
    pendingNotifications,  \* the static map: id -> handle address, 0 = no entry
    valid,                 \* s_dbusInterface->isValid()
    calls,                 \* Notify calls the daemon has not answered yet, by
                           \* handle and watcher; those of a destroyed handle
                           \* are kept under NoHandle
    absorbed,              \* absorbed[h]: a show() of h returned through the
                           \* isPending() branch during the current round-trip
    crashed,               \* the process has crashed (undefined behaviour)
    sent,                  \* calls made on the interface by the last step
    emitted,               \* Qt signals emitted by the last step
    last,                  \* the last step: operation, arguments, return value
    mutex,                 \* pendingNotificationsMutex, between two steps
    capabilityWatchers,    \* the watchers of the unanswered GetCapabilities
                           \* calls, each with the state of the callback its
                           \* lambda refers to
    invoked                \* calls of queryCapabilities' callback made by the
                           \* last step, each with the capabilities passed

vars == << alive, m_id, m_watcher, m_msg, pendingNotifications, valid, calls,
           absorbed, crashed, sent, emitted, last, mutex, capabilityWatchers,
           invoked >>

\* ---------------------------------------------------------------- records
\* one call made on s_dbusInterface; locked: pendingNotificationsMutex is
\* held by the caller while the call is made
Call(name, h, id, body, locked) ==
    [ call |-> name, h |-> h, id |-> id, body |-> body, locked |-> locked ]

\* one Qt signal emitted by handle h; id is m_id of h at the emit statement
Signal(name, h, arg, id) ==
    [ sig |-> name, h |-> h, arg |-> arg, id |-> id ]

\* the step just taken: the operation, the handle it acted on, its arguments
\* and its return value
Step(op, h, id, arg, ret) ==
    [ op |-> op, h |-> h, id |-> id, arg |-> arg, ret |-> ret ]

\* ---------------------------------------------------------------- helpers
startsWith(s, p) ==
    Len(s) >= Len(p) /\ SubSeq(s, 1, Len(p)) = p

\* find as it would be if every daemon identifier resolved to a handle
find_always(id) ==
    IF id \in Ids
    THEN (IF pendingNotifications[id] # NoHandle
          THEN pendingNotifications[id]
          ELSE 1)
    ELSE NoHandle

\* std::map::find on pendingNotifications (keys are daemon identifiers)
find(id) ==
    IF id \in Ids THEN pendingNotifications[id] ELSE NoHandle

isPendingId(id) ==
    id = pendingId \/ id = pendingId2

isPending(h) ==
    isPendingId(m_id[h])

\* isVisible() (dbusnotification.h): the handle has a daemon identifier
isVisibleId(id) ==
    id # initialId /\ ~isPendingId(id)

isVisible(h) ==
    isVisibleId(m_id[h])

\* "delete m_watcher": the call m_watcher watched stays unanswered at the
\* daemon, its reply will reach no handler. The unanswered calls of a handle
\* whose watchers are deleted are not told apart.
Unwatched(cs, h) ==
    { IF c.h = h THEN [ c EXCEPT !.watcher = DeletedWatcher ] ELSE c : c \in cs }

\* the calls of a destroyed handle: their watchers are deleted with it
Orphaned(cs, h) ==
    { IF c.h = h THEN [ h |-> NoHandle, watcher |-> DeletedWatcher ] ELSE c :
        c \in cs }

\* the event loop runs: the process has not crashed and its thread is not
\* blocked
Running ==
    /\ ~crashed
    /\ mutex = Unlocked

\* the step returned, any QMutexLocker of it released the mutex; it made no
\* GetCapabilities call and ran no callback of one
Returned ==
    /\ mutex' = Unlocked
    /\ invoked' = <<>>
    /\ UNCHANGED capabilityWatchers

\* ------------------------------------------------------------- operations
\* The result of a member function: the handle's new m_id and m_watcher, the
\* unanswered calls, what was sent and emitted, and the return value.
Outcome(id, w, cs, snt, emt, ret, abs) ==
    [ id |-> id, watcher |-> w, calls |-> cs, sent |-> snt, emitted |-> emt,
      ret |-> ret, abs |-> abs ]

\* show() as it would be if it always asked for a new notification
NotifyCall_new(h, mid, msg) ==
    Call("Notify", h, initialId, msg, FALSE)

\* the Notify call of show(): replaces_id is m_id
NotifyCall(h, mid, msg) ==
    Call("Notify", h, mid, msg, FALSE)

\* show() as it would be if it reset m_id when the daemon is unreachable
show_resets(h, mid, w, msg, abs, cs) ==
    IF isPendingId(mid)
    THEN Outcome(pendingId2, w, cs, <<>>, <<>>, TRUE, TRUE)
    ELSE IF ~valid
    THEN Outcome(initialId, w, cs, <<>>,
                 << Signal("error", h, "", initialId) >>, FALSE, abs)
    ELSE Outcome(pendingId, LiveWatcher,
                 Unwatched(cs, h) \cup { [ h |-> h, watcher |-> LiveWatcher ] },
                 << Call("Notify", h, mid, msg, FALSE) >>, <<>>, TRUE, FALSE)

\* bool DBusNotification::show(), on a handle whose m_id is mid, m_watcher
\* is w and m_msg is msg
show(h, mid, w, msg, abs, cs) ==
    IF isPendingId(mid)
    THEN Outcome(pendingId2, w, cs, <<>>, <<>>, TRUE, TRUE)
    ELSE IF ~valid
    THEN Outcome(mid, w, cs, <<>>, << Signal("error", h, "", mid) >>, FALSE, abs)
    ELSE Outcome(pendingId, LiveWatcher,
                 Unwatched(cs, h) \cup { [ h |-> h, watcher |-> LiveWatcher ] },
                 << NotifyCall(h, mid, msg) >>, <<>>, TRUE, FALSE)

\* update() as it would be if it did not look for a leading bullet
updateMsg_alwaysPrefix(mid, msg, line) ==
    IF (~isPendingId(mid) /\ ~isVisibleId(mid)) \/ msg = <<>>
    THEN line
    ELSE << Bullet, Space >> \o msg \o << Newline, Bullet, Space >> \o line

\* the new m_msg of update(line)
updateMsg(mid, msg, line) ==
    IF (~isPendingId(mid) /\ ~isVisibleId(mid)) \/ msg = <<>>
    THEN line
    ELSE (IF ~startsWith(msg, << Bullet >>)
          THEN << Bullet, Space >> \o msg
          ELSE msg) \o << Newline, Bullet, Space >> \o line

\* hide() as it would be if it closed assigned notifications only
hide_visibleOnly(h, mid) ==
    IF isVisibleId(mid)
    THEN [ sent |-> << Call("CloseNotification", h, mid, <<>>, FALSE) >>,
           ret |-> TRUE ]
    ELSE [ sent |-> <<>>, ret |-> FALSE ]

\* bool DBusNotification::hide()
hide(h, mid) ==
    IF mid # 0
    THEN [ sent |-> << Call("CloseNotification", h, mid, <<>>, FALSE) >>,
           ret |-> TRUE ]
    ELSE [ sent |-> <<>>, ret |-> FALSE ]

\* the reason passed to closed() by handleNotificationClosed
NotificationCloseReason(reason) ==
    CASE reason = 1 -> "Expired"
      [] reason = 2 -> "Dismissed"
      [] reason = 3 -> "ClosedByRequest"
      [] OTHER      -> "Undefined"

closeReason(reason) ==
    IF reason >= 1 /\ reason <= 3
    THEN NotificationCloseReason(reason)
    ELSE "Undefined"

\* handleNotifyResult as it would be if it did not record the identifier
registerId_lost(reg, id, h) ==
    reg

\* pendingNotifications[id] = this
registerId(reg, id, h) ==
    [ reg EXCEPT ![id] = h ]

\* pendingNotifications.erase(i), i the iterator found for id
erase(reg, id) ==
    [ reg EXCEPT ![id] = NoHandle ]

\* i->first read after erase(i): the node is freed, any IDType value may
\* be read
ReadAfterErase(id) ==
    { id, initialId }

\* handleNotifyResult as it would be if it handled the reply to every call
\* of a live handle
correlates_any(c) ==
    c.h # NoHandle

\* the reply to call c reaches handleNotifyResult and passes its first test,
\* "watcher != m_watcher" being false: c is the call m_watcher watches
correlates(c) ==
    c.h # NoHandle /\ c.watcher = m_watcher[c.h]

\* handleNotifyResult as it would be if an error reply to a handle with an
\* absorbed show() were followed by a new request
replyError_followsUp(h, mid, msg, cs) ==
    IF mid = pendingId2
    THEN [ show(h, initialId, NoWatcher, msg, FALSE, cs) EXCEPT
             !.emitted = << Signal("error", h, "", initialId) >> \o @ ]
    ELSE Outcome(initialId, NoWatcher, cs, <<>>,
                 << Signal("error", h, "", initialId) >>, TRUE, FALSE)

\* handleNotifyResult, returnValue.isError(): m_id = initialId; emit error()
replyError(h, mid, msg, cs) ==
    Outcome(initialId, NoWatcher, cs, <<>>,
            << Signal("error", h, "", initialId) >>, TRUE, FALSE)

\* handleNotifyResult as it would be if it called show() again without
\* having stored the identifier
replySuccess_keepsPending(h, mid, n, msg, cs) ==
    IF mid = pendingId2
    THEN show(h, mid, NoWatcher, msg, FALSE, cs)
    ELSE Outcome(n, NoWatcher, cs, <<>>, <<>>, TRUE, FALSE)

\* handleNotifyResult, success: m_id = returnValue.argumentAt<0>(), and
\* show() again if m_id was pendingId2 (needsUpdate)
replySuccess(h, mid, n, msg, cs) ==
    IF mid = pendingId2
    THEN show(h, n, NoWatcher, msg, FALSE, cs)
    ELSE Outcome(n, NoWatcher, cs, <<>>, <<>>, TRUE, FALSE)

\* the calls made by a slot that runs inside "emit", the emitting handler
\* holding pendingNotificationsMutex
WhileLocked(snt) ==
    [ i \in DOMAIN snt |-> [ snt[i] EXCEPT !.locked = TRUE ] ]

\* "emit notification->closed(...)" on a handle whose m_id is mid at that
\* statement: the slot runs before emit returns
emitClosed(h, mid, reason, slot) ==
    LET r == IF slot = ShowSlot
             THEN show(h, mid, m_watcher[h], m_msg[h], absorbed[h], calls)
             ELSE Outcome(mid, m_watcher[h], calls, <<>>, <<>>, TRUE,
                          absorbed[h])
    IN  [ r EXCEPT !.sent = WhileLocked(@),
                   !.emitted = << Signal("closed", h, reason, mid) >> \o @ ]

\* the handle's fields after a member function returned r
Apply(h, r, msg, op, id, arg) ==
    /\ m_id' = [ m_id EXCEPT ![h] = r.id ]
    /\ m_watcher' = [ m_watcher EXCEPT ![h] = r.watcher ]
    /\ m_msg' = [ m_msg EXCEPT ![h] = msg ]
    /\ calls' = r.calls
    /\ absorbed' = [ absorbed EXCEPT ![h] = r.abs ]
    /\ sent' = r.sent
    /\ emitted' = r.emitted
    /\ last' = Step(op, h, id, arg, r.ret)
    /\ Returned
    /\ UNCHANGED << alive, pendingNotifications, valid, crashed >>

Callable(h) ==
    /\ Running
    /\ alive[h]

Show(h) ==
    /\ Callable(h)
    /\ Apply(h, show(h, m_id[h], m_watcher[h], m_msg[h], absorbed[h], calls),
             m_msg[h], "show", initialId, <<>>)

ShowMessage(h, message) ==
    /\ Callable(h)
    /\ Apply(h, show(h, m_id[h], m_watcher[h], message, absorbed[h], calls),
             message, "showMessage", initialId, message)

Update(h, line) ==
    /\ Callable(h)
    /\ LET msg == updateMsg(m_id[h], m_msg[h], line)
       IN  /\ Len(msg) <= MaxBody
           /\ Apply(h, show(h, m_id[h], m_watcher[h], msg, absorbed[h], calls),
                    msg, "update", initialId, line)

Hide(h) ==
    /\ Callable(h)
    /\ sent' = hide(h, m_id[h]).sent
    /\ emitted' = <<>>
    /\ last' = Step("hide", h, initialId, <<>>, hide(h, m_id[h]).ret)
    /\ Returned
    /\ UNCHANGED << alive, m_id, m_watcher, m_msg, pendingNotifications, valid,
                    calls, absorbed, crashed >>

\* DBusNotification::~DBusNotification(): erase the entry found under m_id,
\* then hide(). The watcher is a child object and is deleted with the handle,
\* the call it watched stays unanswered at the daemon.
Destroy(h) ==
    /\ Callable(h)
    /\ calls' = Orphaned(calls, h)
    /\ pendingNotifications' =
           IF find(m_id[h]) # NoHandle
           THEN erase(pendingNotifications, m_id[h])
           ELSE pendingNotifications
    /\ sent' = hide(h, m_id[h]).sent
    /\ emitted' = <<>>
    /\ alive' = [ alive EXCEPT ![h] = FALSE ]
    /\ m_id' = [ m_id EXCEPT ![h] = initialId ]
    /\ m_watcher' = [ m_watcher EXCEPT ![h] = NoWatcher ]
    /\ m_msg' = [ m_msg EXCEPT ![h] = <<>> ]
    /\ absorbed' = [ absorbed EXCEPT ![h] = FALSE ]
    /\ last' = Step("destroy", h, initialId, <<>>, TRUE)
    /\ Returned
    /\ UNCHANGED << valid, crashed >>

\* DBusNotification::DBusNotification(): a new object, possibly at the
\* address of a destroyed one
Construct(h) ==
    /\ Running
    /\ ~alive[h]
    /\ alive' = [ alive EXCEPT ![h] = TRUE ]
    /\ m_id' = [ m_id EXCEPT ![h] = initialId ]
    /\ m_watcher' = [ m_watcher EXCEPT ![h] = NoWatcher ]
    /\ m_msg' = [ m_msg EXCEPT ![h] = <<>> ]
    /\ sent' = <<>>
    /\ emitted' = <<>>
    /\ last' = Step("construct", h, initialId, <<>>, TRUE)
    /\ Returned
    /\ UNCHANGED << pendingNotifications, valid, calls, absorbed, crashed >>

\* the daemon appears on or disappears from the bus: isValid() changes
Availability ==
    /\ Running
    /\ valid' = ~valid
    /\ sent' = <<>>
    /\ emitted' = <<>>
    /\ last' = Step("availability", NoHandle, initialId, <<>>, ~valid)
    /\ Returned
    /\ UNCHANGED << alive, m_id, m_watcher, m_msg, pendingNotifications,
                    calls, absorbed, crashed >>

\* void DBusNotification::handleNotifyResult(watcher): the daemon answers
\* call c, with an error or with identifier n. A deleted watcher delivers
\* nothing, which is the early return of the handler. The step records the
\* identifier of the reply, for an error reply m_id as the reply found it.
handleNotifyResult(c, isError, n) ==
    /\ Running
    /\ c \in calls
    /\ Returned
    /\ LET h  == c.h
           cs == calls \ { c }
       IN  IF ~correlates(c)
           THEN /\ calls' = cs
                /\ sent' = <<>>
                /\ emitted' = <<>>
                /\ last' = Step("handleNotifyResult", h, initialId,
                                "discarded", TRUE)
                /\ UNCHANGED << alive, m_id, m_watcher, m_msg,
                                pendingNotifications, valid, absorbed, crashed >>
           ELSE LET r == IF isError
                         THEN replyError(h, m_id[h], m_msg[h], cs)
                         ELSE replySuccess(h, m_id[h], n, m_msg[h], cs)
                IN  /\ m_id' = [ m_id EXCEPT ![h] = r.id ]
                    /\ m_watcher' = [ m_watcher EXCEPT ![h] = r.watcher ]
                    /\ pendingNotifications' =
                           IF isError
                           THEN pendingNotifications
                           ELSE registerId(pendingNotifications, n, h)
                    /\ calls' = r.calls
                    /\ absorbed' = [ absorbed EXCEPT ![h] = r.abs ]
                    /\ sent' = r.sent
                    /\ emitted' = IF isError
                                  THEN r.emitted
                                  ELSE << Signal("shown", h, "", n) >> \o r.emitted
                    /\ last' = IF isError
                               THEN Step("handleNotifyResult", h, m_id[h],
                                         "error", TRUE)
                               ELSE Step("handleNotifyResult", h, n,
                                         "success", TRUE)
                    /\ UNCHANGED << alive, m_msg, valid, crashed >>

\* void DBusNotification::handleNotificationClosed(id, reason), a slot of
\* the given kind being connected to closed(). An entry whose handle was
\* destroyed is a dangling pointer: the write and the emit go to freed
\* memory, and the process crashes or goes on. A slot that deletes the
\* handle runs the destructor, which locks the mutex the handler holds.
handleNotificationClosedSlot(id, reason, slot) ==
    /\ Running
    /\ invoked' = <<>>
    /\ UNCHANGED capabilityWatchers
    /\ LET h == find(id)
       IN  IF h = NoHandle
           THEN /\ sent' = <<>>
                /\ emitted' = <<>>
                /\ last' = Step("handleNotificationClosed", NoHandle,
                                id, <<>>, FALSE)
                /\ UNCHANGED << alive, m_id, m_watcher, m_msg,
                                pendingNotifications, valid, calls, absorbed,
                                crashed, mutex >>
           ELSE IF alive[h]
           THEN LET r == emitClosed(h, initialId, closeReason(reason), slot)
                IN  /\ m_id' = [ m_id EXCEPT ![h] = r.id ]
                    /\ m_watcher' = [ m_watcher EXCEPT ![h] = r.watcher ]
                    /\ calls' = r.calls
                    /\ absorbed' = [ absorbed EXCEPT ![h] = r.abs ]
                    /\ emitted' = r.emitted
                    /\ sent' = r.sent
                    /\ IF slot = DeleteSlot
                       THEN /\ mutex' = Deadlocked
                            /\ UNCHANGED pendingNotifications
                       ELSE /\ mutex' = Unlocked
                            /\ pendingNotifications' =
                                   erase(pendingNotifications, id)
                    /\ last' = Step("handleNotificationClosed", h, id, reason,
                                    TRUE)
                    /\ UNCHANGED << alive, m_msg, valid, crashed >>
           ELSE /\ \/ /\ crashed' = TRUE
                      /\ UNCHANGED pendingNotifications
                   \/ /\ pendingNotifications' = erase(pendingNotifications, id)
                      /\ UNCHANGED crashed
                /\ sent' = <<>>
                /\ emitted' = <<>>
                /\ last' = Step("handleNotificationClosed", h, id, reason, TRUE)
                /\ UNCHANGED << alive, m_id, m_watcher, m_msg, valid, calls,
                                absorbed, mutex >>

\* handleNotificationClosed with no slot connected to closed()
handleNotificationClosed(id, reason) ==
    handleNotificationClosedSlot(id, reason, NoSlot)

\* void DBusNotification::handleActionInvoked(id, action), a slot of the
\* given kind being connected to closed(). closed() is emitted before m_id
\* is reset; CloseNotification is called with i->first after erase(i) and
\* before the lock is released.
handleActionInvokedSlot(id, action, slot) ==
    /\ Running
    /\ invoked' = <<>>
    /\ UNCHANGED capabilityWatchers
    /\ LET h == find(id)
       IN  IF h = NoHandle
           THEN /\ sent' = <<>>
                /\ emitted' = <<>>
                /\ last' = Step("handleActionInvoked", NoHandle, id,
                                <<>>, FALSE)
                /\ UNCHANGED << alive, m_id, m_watcher, m_msg,
                                pendingNotifications, valid, calls, absorbed,
                                crashed, mutex >>
           ELSE IF alive[h] /\ slot = DeleteSlot
           THEN /\ emitted' =
                       << Signal("actionInvoked", h, action, m_id[h]),
                          Signal("closed", h, "ActionInvoked", m_id[h]) >>
                /\ sent' = <<>>
                /\ mutex' = Deadlocked
                /\ last' = Step("handleActionInvoked", h, id, action, TRUE)
                /\ UNCHANGED << alive, m_id, m_watcher, m_msg,
                                pendingNotifications, valid, calls, absorbed,
                                crashed >>
           ELSE /\ pendingNotifications' = erase(pendingNotifications, id)
                /\ last' = Step("handleActionInvoked", h, id, action, TRUE)
                /\ UNCHANGED mutex
                /\ IF alive[h]
                   THEN LET r == emitClosed(h, m_id[h], "ActionInvoked", slot)
                        IN  /\ emitted' =
                                  << Signal("actionInvoked", h, action,
                                            m_id[h]) >> \o r.emitted
                            /\ m_id' = [ m_id EXCEPT ![h] = initialId ]
                            /\ m_watcher' =
                                   [ m_watcher EXCEPT ![h] = r.watcher ]
                            /\ calls' = r.calls
                            /\ absorbed' = [ absorbed EXCEPT ![h] = r.abs ]
                            /\ \/ /\ \E x \in ReadAfterErase(id) :
                                       sent' = r.sent \o
                                         << Call("CloseNotification", h, x,
                                                 <<>>, TRUE) >>
                                  /\ UNCHANGED crashed
                               \/ /\ sent' = r.sent
                                  /\ crashed' = TRUE
                   ELSE /\ emitted' = <<>>
                        /\ UNCHANGED << m_id, m_watcher, calls, absorbed >>
                        /\ \/ /\ \E x \in ReadAfterErase(id) :
                                   sent' = << Call("CloseNotification", h, x,
                                                   <<>>, TRUE) >>
                              /\ UNCHANGED crashed
                           \/ /\ sent' = <<>>
                              /\ crashed' = TRUE
                /\ UNCHANGED << alive, m_msg, valid >>

\* handleActionInvoked with no slot connected to closed()
handleActionInvoked(id, action) ==
    handleActionInvokedSlot(id, action, NoSlot)

\* Capabilities(QStringList) (dbusnotification.h): the set of the tokens
Capabilities(list) ==
    { list[i] : i \in DOMAIN list }

\* bool DBusNotification::queryCapabilities(callback), kept telling whether
\* the caller's std::function outlives the reply
queryCapabilities(kept) ==
    /\ Running
    /\ IF ~valid
       THEN /\ sent' = <<>>
            /\ last' = Step("queryCapabilities", NoHandle, initialId, kept,
                            FALSE)
            /\ UNCHANGED capabilityWatchers
       ELSE /\ Len(capabilityWatchers) < MaxQueries
            /\ sent' = << Call("GetCapabilities", NoHandle, initialId, <<>>,
                               FALSE) >>
            /\ capabilityWatchers' =
                   Append(capabilityWatchers,
                          IF kept THEN KeptCallback ELSE DestroyedCallback)
            /\ last' = Step("queryCapabilities", NoHandle, initialId, kept,
                            TRUE)
    /\ emitted' = <<>>
    /\ invoked' = <<>>
    /\ UNCHANGED << alive, m_id, m_watcher, m_msg, pendingNotifications, valid,
                    calls, absorbed, crashed, mutex >>

\* the lambda connected to newWatcher's finished(): the daemon answers the
\* i-th unanswered GetCapabilities call, with an error or with list. The
\* lambda calls through its reference to callback; if that std::function is
\* destroyed the call is undefined: it crashes, or the memory still holds
\* the function and it is called.
handleCapabilitiesResult(i, isError, list) ==
    /\ Running
    /\ i \in DOMAIN capabilityWatchers
    /\ capabilityWatchers' =
           SubSeq(capabilityWatchers, 1, i - 1)
             \o SubSeq(capabilityWatchers, i + 1, Len(capabilityWatchers))
    /\ LET capabilities == IF isError
                           THEN Capabilities(<<>>)
                           ELSE Capabilities(list)
       IN  \/ /\ invoked' = << capabilities >>
              /\ UNCHANGED crashed
           \/ /\ capabilityWatchers[i] = DestroyedCallback
              /\ invoked' = <<>>
              /\ crashed' = TRUE
    /\ sent' = <<>>
    /\ emitted' = <<>>
    /\ last' = Step("handleCapabilitiesResult", NoHandle, initialId,
                    IF isError THEN "error" ELSE list, TRUE)
    /\ UNCHANGED << alive, m_id, m_watcher, m_msg, pendingNotifications, valid,
                    calls, absorbed, mutex >>

\* ------------------------------------------------------------ specification
Init ==
    /\ alive = [ h \in Handles |-> TRUE ]
    /\ m_id = [ h \in Handles |-> initialId ]
    /\ m_watcher = [ h \in Handles |-> NoWatcher ]
    /\ m_msg = [ h \in Handles |-> <<>> ]
    /\ pendingNotifications = [ i \in Ids |-> NoHandle ]
    /\ valid = TRUE
    /\ calls = {}
    /\ absorbed = [ h \in Handles |-> FALSE ]
    /\ crashed = FALSE
    /\ sent = <<>>
    /\ emitted = <<>>
    /\ last = Step("construct", NoHandle, initialId, <<>>, TRUE)
    /\ mutex = Unlocked
    /\ capabilityWatchers = <<>>
    /\ invoked = <<>>

\* The lifecycle of all handles. The text of m_msg is followed in SpecMsg;
\* here update() is called with the empty line, which leaves m_msg empty.
Next ==
    \/ \E h \in Handles : Show(h)
    \/ \E h \in Handles, line \in NoLines : Update(h, line)
    \/ \E h \in Handles : Hide(h)
    \/ \E h \in Handles : Destroy(h)
    \/ \E h \in Handles : Construct(h)
    \/ Availability
    \/ \E c \in calls, isError \in BOOLEAN, n \in Ids :
          handleNotifyResult(c, isError, n)
    \/ \E id \in Ids, reason \in Reasons : handleNotificationClosed(id, reason)
    \/ \E id \in Ids, action \in ActionIds : handleActionInvoked(id, action)

Spec == Init /\ [][Next]_vars

\* the values the members and the static data take
TypeOK ==
    /\ alive \in [ Handles -> BOOLEAN ]
    /\ m_id \in [ Handles -> { initialId, pendingId, pendingId2 } \cup Ids ]
    /\ m_watcher \in [ Handles -> { NoWatcher, LiveWatcher } ]
    /\ \A h \in Handles : m_msg[h] \in Seq({ Bullet, Space, Newline, "a" })
    /\ pendingNotifications \in [ Ids -> Handles \cup { NoHandle } ]
    /\ valid \in BOOLEAN
    /\ calls \subseteq [ h : Handles \cup { NoHandle },
                          watcher : { LiveWatcher, DeletedWatcher } ]
    /\ \A h \in Handles :
          (m_watcher[h] = LiveWatcher)
            <=> ([ h |-> h, watcher |-> LiveWatcher ] \in calls)
    /\ absorbed \in [ Handles -> BOOLEAN ]
    /\ crashed \in BOOLEAN
    /\ mutex \in { Unlocked, Deadlocked }
    /\ capabilityWatchers \in Seq({ KeptCallback, DestroyedCallback })
    /\ Len(capabilityWatchers) <= MaxQueries

\* One handle whose message is followed: show(message) and update(line) with
\* every line of Lines, the replies to its calls, the daemon closing it.
MsgNext ==
    \/ \E message \in Lines : ShowMessage(1, message)
    \/ \E line \in Lines : Update(1, line)
    \/ Availability
    \/ \E c \in calls, isError \in BOOLEAN : handleNotifyResult(c, isError, 1)
    \/ \E reason \in Reasons : handleNotificationClosed(1, reason)

SpecMsg == Init /\ [][MsgNext]_vars

\* The capability query next to one handle: queryCapabilities with a
\* callback the caller keeps or not, the replies to GetCapabilities, and
\* the show() round-trip of the handle.
CapNext ==
    \/ \E kept \in BOOLEAN : queryCapabilities(kept)
    \/ \E i \in 1..MaxQueries, isError \in BOOLEAN, list \in CapabilityLists :
          handleCapabilitiesResult(i, isError, list)
    \/ Availability
    \/ Show(1)
    \/ \E c \in calls, isError \in BOOLEAN : handleNotifyResult(c, isError, 1)

SpecCap == Init /\ [][CapNext]_vars

\* One handle whose closed() is connected, with a direct connection, to a
\* slot that does nothing, shows the handle again or deletes it.
SlotNext ==
    \/ Show(1)
    \/ Hide(1)
    \/ Availability
    \/ \E c \in calls, isError \in BOOLEAN, n \in Ids :
          handleNotifyResult(c, isError, n)
    \/ \E id \in Ids, reason \in Reasons, slot \in Slots :
          handleNotificationClosedSlot(id, reason, slot)
    \/ \E id \in Ids, action \in ActionIds, slot \in Slots :
          handleActionInvokedSlot(id, action, slot)

SpecSlot == Init /\ [][SlotNext]_vars

\* ------------------------------------------------------------- vocabulary
Unassigned(h)       == m_id[h] = initialId
PendingSingle(h)    == m_id[h] = pendingId
PendingCoalesced(h) == m_id[h] = pendingId2
Assigned(h, n)      == n \in Ids /\ m_id[h] = n

Outstanding(h) == { c \in calls : c.h = h }

Requests(log, name) == { i \in DOMAIN log : log[i].call = name }

ShowOps == { "show", "showMessage", "update" }

\* the step just taken is a call of show(), show(message) or update(line) on h
Shows(h) == last.op \in ShowOps /\ last.h = h

\* the step just taken handled, for h, the reply to its watched call
Replied(h, kind) ==
    last.op = "handleNotifyResult" /\ last.h = h /\ last.arg = kind

\* ------------------------------------------------------------------ claims

\* C1: a handle never has two Notify calls unanswered at the daemon at the
\* same time (a show() made while one is unanswered dispatches nothing).
C1_OneOutstandingRequest ==
    \A h \in Handles : Cardinality(Outstanding(h)) <= 1

\* C2: a show()/update() made on a handle while a call of it is unanswered
\* dispatches nothing and leaves isPending() true; the successful reply to
\* the watched call is followed by exactly one Notify if a call was absorbed
\* during the round-trip and by none otherwise (daemon reachable).
C2_AbsorbedThenOneFollowUp ==
    [][ \A h \in Handles :
          /\ (Shows(h)' /\ Outstanding(h) # {})
                => (Requests(sent', "Notify") = {} /\ isPending(h)')
          /\ (Replied(h, "success")' /\ valid)
                => Cardinality(Requests(sent', "Notify"))
                     = (IF absorbed[h] THEN 1 ELSE 0) ]_vars

\* C3 as stated: after a successful reply with identifier n was handled the
\* handle is Assigned(n), pendingNotifications maps n to it and shown was
\* emitted once.
C3_ReplyLeavesAssigned ==
    \A h \in Handles :
        Replied(h, "success")
          => /\ Assigned(h, last.id)
             /\ pendingNotifications[last.id] = h
             /\ Cardinality({ i \in DOMAIN emitted : emitted[i].sig = "shown" }) = 1

\* C3 amended: handling a successful reply with identifier n maps n to the
\* handle and emits shown once, the handle being Assigned(n) at that moment;
\* when the handler returns the handle is Assigned(n), unless it was
\* PendingCoalesced and the daemon is reachable: then the follow-up show()
\* has left it PendingSingle.
C3_ReplyAssignsThenFollowsUp ==
    [][ \A h \in Handles :
          Replied(h, "success")'
            => /\ pendingNotifications'[last'.id] = h
               /\ { i \in DOMAIN emitted' : emitted'[i].sig = "shown" } = { 1 }
               /\ emitted'[1] = Signal("shown", h, "", last'.id)
               /\ IF PendingCoalesced(h) /\ valid
                  THEN PendingSingle(h)'
                  ELSE m_id'[h] = last'.id /\ last'.id \in Ids ]_vars

\* C3 witness: a successful reply was handled for a PendingCoalesced handle,
\* which registered the identifier and sent the follow-up.
C3_Witness ==
    \E h \in Handles :
        /\ Replied(h, "success")
        /\ PendingSingle(h)
        /\ pendingNotifications[last.id] = h
        /\ Requests(sent, "Notify") # {}

\* C4 as stated: show() on a handle that is not pending, the daemon being
\* unreachable, dispatches nothing, emits error, returns false and leaves
\* the handle Unassigned.
C4_UnavailableLeavesUnassigned ==
    [][ \A h \in Handles :
          (Shows(h)' /\ ~isPending(h) /\ ~valid)
            => /\ sent' = <<>>
               /\ Len(emitted') = 1 /\ emitted'[1].sig = "error"
               /\ last'.ret = FALSE
               /\ Unassigned(h)' ]_vars

\* C4 amended: show() on a handle that is not pending, the daemon being
\* unreachable, dispatches nothing, emits error, returns false and leaves
\* m_id as it was: Unassigned stays Unassigned, Assigned(id) stays Assigned(id).
C4_UnavailableKeepsState ==
    [][ \A h \in Handles :
          (Shows(h)' /\ ~isPending(h) /\ ~valid)
            => /\ sent' = <<>>
               /\ Len(emitted') = 1 /\ emitted'[1].sig = "error"
               /\ emitted'[1].h = h
               /\ last'.ret = FALSE
               /\ m_id'[h] = m_id[h] ]_vars

\* C4 witness: show() failed on an Assigned handle, the daemon unreachable.
C4_Witness ==
    \E h \in Handles, n \in Ids :
        /\ Shows(h)
        /\ last.ret = FALSE
        /\ ~valid
        /\ Assigned(h, n)

\* C5: NotificationClosed(id, reason) for an id that pendingNotifications
\* maps to a handle leaves that handle Unassigned, emits closed once with
\* Expired/Dismissed/ClosedByRequest for 1/2/3 and Undefined for any other
\* code, and leaves no entry under id.
C5_ClosedSignalClosesHandle ==
    \A h \in Handles :
        (last.op = "handleNotificationClosed" /\ last.h = h)
          => /\ ~crashed
             /\ Unassigned(h)
             /\ Len(emitted) = 1
             /\ emitted[1].sig = "closed" /\ emitted[1].h = h
             /\ emitted[1].arg = (IF last.arg = 1 THEN "Expired"
                                  ELSE IF last.arg = 2 THEN "Dismissed"
                                  ELSE IF last.arg = 3 THEN "ClosedByRequest"
                                  ELSE "Undefined")
             /\ pendingNotifications[last.id] = NoHandle

\* C6: ActionInvoked(id, actionId) for an id that pendingNotifications maps
\* to a handle emits actionInvoked(actionId) and then closed(ActionInvoked),
\* removes the entry, leaves the handle Unassigned and sends exactly one
\* CloseNotification, carrying id.
C6_ActionInvokedClosesWithSameId ==
    \A h \in Handles :
        (last.op = "handleActionInvoked" /\ last.h = h)
          => /\ ~crashed
             /\ Len(emitted) = 2
             /\ emitted[1].sig = "actionInvoked" /\ emitted[1].h = h
             /\ emitted[1].arg = last.arg
             /\ emitted[2].sig = "closed" /\ emitted[2].h = h
             /\ emitted[2].arg = "ActionInvoked"
             /\ pendingNotifications[last.id] = NoHandle
             /\ Unassigned(h)
             /\ Len(sent) = 1
             /\ sent[1].call = "CloseNotification" /\ sent[1].id = last.id

\* C7: no entry of pendingNotifications refers to a destroyed handle, in
\* whichever state it was destroyed.
C7_NoEntryForDestroyedHandle ==
    \A h \in Handles :
        ~alive[h] => \A id \in Ids : pendingNotifications[id] # h

\* C8: hide() sends one CloseNotification and returns true iff m_id is not
\* zero, returns false and sends nothing on an Unassigned handle, and changes
\* neither the handle nor pendingNotifications.
C8_HideSendsIffNonZero ==
    [][ \A h \in Handles :
          (last'.op = "hide" /\ last'.h = h)
            => /\ last'.ret = (~Unassigned(h))
               /\ ~Unassigned(h)
                    => (Len(sent') = 1 /\ sent'[1].call = "CloseNotification")
               /\ Unassigned(h) => sent' = <<>>
               /\ emitted' = <<>>
               /\ UNCHANGED << alive, m_id, m_watcher, m_msg,
                               pendingNotifications, calls >> ]_vars

\* C8 witness: hide() on a pending handle sent a request and returned true.
C8_Witness ==
    \E h \in Handles :
        /\ last.op = "hide" /\ last.h = h
        /\ last.ret = TRUE
        /\ isPending(h)
        /\ Len(sent) = 1

\* C9: update(line) sets the body to line when the handle is neither pending
\* nor assigned or the body is empty; otherwise to the body, preceded by a
\* bullet and a space unless it starts with a bullet, followed by a newline,
\* a bullet, a space and line; and this whatever show() then does.
C9_UpdateAppendsBulletedLine ==
    [][ \A h \in Handles :
          (last'.op = "update" /\ last'.h = h)
            => m_msg'[h] =
                 (IF Unassigned(h) \/ m_msg[h] = <<>>
                  THEN last'.arg
                  ELSE IF Head(m_msg[h]) = Bullet
                  THEN m_msg[h] \o << Newline, Bullet, Space >> \o last'.arg
                  ELSE << Bullet, Space >> \o m_msg[h]
                         \o << Newline, Bullet, Space >> \o last'.arg) ]_vars

\* C9 witness: update("a") on a handle with body "a" failed to show (the
\* daemon unreachable) and the body is the two-entry bulleted list.
C9_Witness ==
    \E h \in Handles :
        /\ last.op = "update" /\ last.h = h
        /\ last.ret = FALSE
        /\ last.arg = << "a" >>
        /\ m_msg[h] = << Bullet, Space, "a", Newline, Bullet, Space, "a" >>

\* C10: every Notify carries as replaces_id the identifier the handle has
\* when it is dispatched (0 when Unassigned, the id when Assigned, the id
\* just assigned for the follow-up of a reply), never a pending placeholder,
\* and leaves the handle PendingSingle.
C10_ReplacesIdIsCurrentId ==
    [][ \A i \in DOMAIN sent' :
          sent'[i].call = "Notify"
            => /\ sent'[i].id = (IF last'.op = "handleNotifyResult"
                                 THEN last'.id
                                 ELSE m_id[sent'[i].h])
               /\ sent'[i].id \in { initialId } \cup Ids
               /\ m_id'[sent'[i].h] = pendingId ]_vars

\* C10 witness: the follow-up sent from the reply handler carries the
\* identifier the reply assigned.
C10_Witness ==
    \E h \in Handles :
        /\ Replied(h, "success")
        /\ Len(sent) = 1
        /\ sent[1].call = "Notify"
        /\ sent[1].id = last.id
        /\ last.id \in Ids

\* C11: an error reply to the call the handle waits for leaves the handle
\* Unassigned, emits error once and nothing else, registers no identifier
\* and dispatches no request, whether the handle was PendingSingle or
\* PendingCoalesced.
C11_ErrorReplyLeavesUnassigned ==
    [][ \A h \in Handles :
          Replied(h, "error")'
            => /\ Unassigned(h)'
               /\ emitted' = << Signal("error", h, "", initialId) >>
               /\ pendingNotifications' = pendingNotifications
               /\ sent' = <<>>
               /\ m_watcher'[h] = NoWatcher ]_vars

\* C11 witness: an error reply was handled for a handle that was
\* PendingCoalesced; it is Unassigned and nothing was sent.
C11_Witness ==
    \E h \in Handles :
        /\ Replied(h, "error")
        /\ last.id = pendingId2
        /\ Unassigned(h)
        /\ sent = <<>>

\* C12 as stated: after the reply to the handle's call was handled,
\* isPending() is false, and after a successful reply the handle is visible
\* (it has the identifier of the reply).
C12_NotPendingAfterReply ==
    \A h \in Handles :
        /\ Replied(h, "error") => ~isPending(h)
        /\ Replied(h, "success") => (~isPending(h) /\ Assigned(h, last.id))

\* C12 amended: after an error reply was handled isPending() is false; after
\* a successful reply was handled isPending() is false and the handle has
\* the identifier of the reply, unless the handle was PendingCoalesced and
\* the daemon is reachable: then the follow-up request was dispatched and
\* isPending() is true again.
C12_NotPendingUnlessFollowUp ==
    [][ \A h \in Handles :
          /\ Replied(h, "error")' => ~isPending(h)'
          /\ Replied(h, "success")'
               => IF PendingCoalesced(h) /\ valid
                  THEN isPending(h)' /\ Requests(sent', "Notify") # {}
                  ELSE ~isPending(h)' /\ m_id'[h] = last'.id
                         /\ last'.id \in Ids ]_vars

\* C12 witness: a successful reply was handled, nothing was absorbed, and
\* the handle has the identifier of the reply and is not pending.
C12_Witness ==
    \E h \in Handles :
        /\ Replied(h, "success")
        /\ sent = <<>>
        /\ Assigned(h, last.id)
        /\ ~isPending(h)

\* C13: queryCapabilities returns false and dispatches nothing when the
\* daemon is unreachable, otherwise dispatches one GetCapabilities and
\* returns true; the reply invokes the callback once, with the capabilities
\* returned or with the empty set on error; no handle and no entry of
\* pendingNotifications changes.
C13_QueryInvokesCallbackOnce ==
    [][ /\ last'.op = "queryCapabilities"
           => /\ last'.ret = valid
              /\ IF valid
                 THEN /\ Cardinality(Requests(sent', "GetCapabilities")) = 1
                      /\ Len(sent') = 1
                      /\ Len(capabilityWatchers') = Len(capabilityWatchers) + 1
                 ELSE /\ sent' = <<>>
                      /\ UNCHANGED capabilityWatchers
              /\ invoked' = <<>>
              /\ UNCHANGED << alive, m_id, m_watcher, m_msg,
                              pendingNotifications, calls >>
        /\ last'.op = "handleCapabilitiesResult"
           => /\ ~crashed'
              /\ invoked' = << IF last'.arg = "error"
                               THEN {}
                               ELSE Capabilities(last'.arg) >>
              /\ Len(capabilityWatchers') = Len(capabilityWatchers) - 1
              /\ UNCHANGED << alive, m_id, m_watcher, m_msg,
                              pendingNotifications, calls >> ]_vars

\* C14: every entry id -> h of pendingNotifications refers to a live handle
\* whose m_id is id; no entry refers to an Unassigned or pending handle.
C14_EntriesReferToAssignedHandles ==
    \A id \in Ids :
        pendingNotifications[id] # NoHandle
          => /\ alive[pendingNotifications[id]]
             /\ Assigned(pendingNotifications[id], id)

\* C15: no call is made on the D-Bus interface while
\* pendingNotificationsMutex is held.
C15_NoCallWhileLocked ==
    \A i \in DOMAIN sent : ~sent[i].locked

\* C16: the reply to a call that no watcher of a live handle waits for (its
\* handle was destroyed, or a later show() deleted its watcher) changes no
\* handle and no entry of pendingNotifications, emits nothing and sends
\* nothing.
C16_UncorrelatedReplyDiscarded ==
    [][ \A c \in calls :
          ( /\ c.h = NoHandle \/ c.watcher = DeletedWatcher
            /\ \E isError \in BOOLEAN, n \in Ids :
                  handleNotifyResult(c, isError, n) )
            => /\ sent' = <<>>
               /\ emitted' = <<>>
               /\ UNCHANGED << alive, m_id, m_watcher, m_msg,
                               pendingNotifications, absorbed, crashed >> ]_vars

\* C16 witness: the reply to a superseded call of a handle was discarded
\* while the handle waits for the reply to its later call.
C16_Witness ==
    \E h \in Handles :
        /\ Replied(h, "discarded")
        /\ PendingSingle(h)
        /\ m_watcher[h] = LiveWatcher

\* C17: NotificationClosed or ActionInvoked with an identifier that has no
\* entry in pendingNotifications changes no handle and no entry, emits
\* nothing and sends nothing.
C17_UnknownIdIgnored ==
    [][ ( /\ last'.op \in { "handleNotificationClosed", "handleActionInvoked" }
          /\ pendingNotifications[last'.id] = NoHandle )
          => /\ last'.h = NoHandle
             /\ sent' = <<>>
             /\ emitted' = <<>>
             /\ UNCHANGED << alive, m_id, m_watcher, m_msg,
                             pendingNotifications, calls, crashed >> ]_vars

\* C17 witness: ActionInvoked arrived with an identifier that has no entry
\* while a handle is Assigned under another identifier.
C17_Witness ==
    /\ last.op = "handleActionInvoked"
    /\ last.h = NoHandle
    /\ pendingNotifications[last.id] = NoHandle
    /\ sent = <<>>
    /\ \E h \in Handles, id \in Ids :
          Assigned(h, id) /\ pendingNotifications[id] = h

\* C18: closed() is emitted by a handle that is already Unassigned, from
\* handleNotificationClosed and from handleActionInvoked; a show() made by
\* a slot of closed() sends Notify with replaces_id 0 and the handle is
\* PendingSingle when the handler has returned.
C18_ClosedEmittedWhenUnassigned ==
    \A h \in Handles :
        ( /\ last.op \in { "handleNotificationClosed", "handleActionInvoked" }
          /\ last.h = h
          /\ mutex = Unlocked
          /\ ~crashed )
          => /\ \A i \in DOMAIN emitted :
                   emitted[i].sig = "closed" => emitted[i].id = initialId
             /\ \A i \in DOMAIN sent :
                   sent[i].call = "Notify"
                     => (sent[i].id = initialId /\ PendingSingle(h))

\* C19: no handle is referred to by two entries of pendingNotifications,
\* also after the reply to an update carried another identifier than the
\* one replaced.
C19_OneEntryPerHandle ==
    \A h \in Handles :
        Cardinality({ id \in Ids : pendingNotifications[id] = h }) <= 1

\* C20: no step tries to lock pendingNotificationsMutex while it holds it:
\* the mutex is free after every step, also when a slot of closed() deletes
\* the handle.
C20_MutexNeverRelocked ==
    mutex # Deadlocked

====
